---- MODULE Spec2Model ----
(***************************************************************************)
(* Resource retrieval engine of c7n: ResourceQuery, DescribeSource,        *)
(* ConfigSource and QueryResourceManager (c7n/query.py), with the SQS and  *)
(* S3 augment overrides (c7n/resources/sqs.py, c7n/resources/s3.py).       *)
(*                                                                         *)
(* One manager instance is modelled.  Its resource descriptor is chosen in *)
(* Init; the provider answers every call with an outcome chosen by the     *)
(* environment.  resources() and get_resources() are atomic for every kind *)
(* but S3, whose augment runs assemble_bucket one provider call at a time. *)
(***************************************************************************)
EXTENDS Integers, Sequences, FiniteSets, TLC

\* ------------------------------------------------------------------ bounds
MaxIds == 2          \* longest id list handed to get_resources
TableLen == 3        \* leading entries of S3_AUGMENT_TABLE that are run
MaxRequeue == 2      \* requeues of one assemble_bucket run the model follows

\* ------------------------------------------------------- program constants
chunk_size == 20     \* QueryResourceManager.chunk_size
ConfigChunk == 50    \* chunk size of ConfigSource.resources

\* ------------------------------------------------------------- the world
\* Ids the provider knows, in enumeration order, and one id that is gone.
Existing == <<"a", "b">>
AllIds == {"a", "b", "gone"}
Queries == {"None", "q"}

\* What the provider lists under a query: "None" is the unnarrowed
\* enumeration, "q" a query that narrows it.
Inventory(q) == IF q = "None" THEN Existing ELSE <<"b">>

\* Error codes of botocore ClientError, and an error that is no ClientError.
ClientErrorCodes ==
    {"Throttled", "NotFound", "AccessDenied", "PermanentRedirect", "InternalError"}
Outcomes == {"ok", "SSLError"} \cup ClientErrorCodes

Range(s) == {s[i] : i \in 1..Len(s)}

Min(a, b) == IF a < b THEN a ELSE b

\* Sequences over S of length at most n.
SeqsUpTo(S, n) == UNION {[1..k -> S] : k \in 0..n}

\* ----------------------------------------------------------- descriptors
\* kind: which manager class (generic QueryResourceManager subclass without
\* an augment override, SQS, S3); source: data['source'];
\* filter_type: "none" = filter_name is None, "other" = filter_name set and
\* filter_type neither 'list' nor 'scalar'; detail: which of detail_spec /
\* batch_detail_spec are set; param_key / detail_path: whether the third and
\* fourth element of the spec in use are set; service: 'ec2' or another
\* service; retry: the class attribute retry, None until QueryMeta sets it.
Services == {"ec2", "kv"}
GenericDescriptors ==
    {d \in [kind : {"generic"}, source : {"describe"},
            filter_type : {"none", "list", "scalar", "other"},
            detail : {"none", "scalar", "batch", "both"},
            param_key : BOOLEAN, detail_path : BOOLEAN,
            service : Services, retry : {FALSE}] :
        /\ d.detail = "none" => (d.param_key /\ ~d.detail_path)
        /\ d.detail = "batch" => d.detail_path
        \* enumerated items are bare ids when the spec has no param_key;
        \* such kinds are looked up with a server-side filter
        /\ ~d.param_key => d.filter_type # "none"}

ConfigDescriptor ==
    [kind |-> "generic", source |-> "config", filter_type |-> "none",
     detail |-> "none", param_key |-> TRUE, detail_path |-> FALSE,
     service |-> "kv", retry |-> FALSE]

SQSDescriptor ==
    [kind |-> "sqs", source |-> "describe", filter_type |-> "scalar",
     detail |-> "scalar", param_key |-> FALSE, detail_path |-> TRUE,
     service |-> "sqs", retry |-> FALSE]

S3Descriptor ==
    [kind |-> "s3", source |-> "describe", filter_type |-> "none",
     detail |-> "scalar", param_key |-> TRUE, detail_path |-> FALSE,
     service |-> "s3", retry |-> FALSE]

\* KeyPair declares filter_name and no filter_type ("absent"); StepFunction
\* declares neither filter_name nor filter_type ("noname").
KeyPairDescriptor ==
    [kind |-> "generic", source |-> "describe", filter_type |-> "absent",
     detail |-> "none", param_key |-> TRUE, detail_path |-> FALSE,
     service |-> "ec2", retry |-> FALSE]

StepFunctionDescriptor ==
    [kind |-> "generic", source |-> "describe", filter_type |-> "noname",
     detail |-> "scalar", param_key |-> TRUE, detail_path |-> FALSE,
     service |-> "kv", retry |-> FALSE]

Descriptors ==
    GenericDescriptors \cup
    {ConfigDescriptor, SQSDescriptor, S3Descriptor,
     KeyPairDescriptor, StepFunctionDescriptor}

\* --------------------------------------------------------------- records
\* A resource is a function from field names to values.  An enumeration
\* whose detail spec has no param_key yields bare ids, written ("$" :> id).
Bare(i) == "$" :> i
IsBare(r) == "$" \in DOMAIN r
Item(d, i) ==
    IF d.param_key THEN ("Id" :> i) @@ ("A" :> "e") ELSE Bare(i)
IdOf(r) == IF IsBare(r) THEN r["$"] ELSE r["Id"]
IdsOf(rs) == {IdOf(rs[i]) : i \in 1..Len(rs)}

\* r.update(u): the fields of u win.
Update(r, u) == u @@ r

\* dict.pop(k)
Pop(r, k) == [f \in DOMAIN r \ {k} |-> r[f]]

\* Result of a call chain: err = "none" and the value, or the error raised.
\* enumCalls / detailCalls: enumeration and detail requests issued to the
\* provider; provErrs: the error codes the provider answered with;
\* guarded / direct: the kinds of request made through manager.retry and
\* made directly; dropped: ids left out with a warning.
Res0 ==
    [err |-> "none", val |-> <<>>, enumCalls |-> 0, detailCalls |-> 0,
     provErrs |-> {}, guarded |-> {}, direct |-> {}, dropped |-> {}]

Failed(r) == r.err # "none"

\* r2 computed after r1: the accounting of r1 is carried over.
After(r1, r2) ==
    [r2 EXCEPT !.enumCalls = @ + r1.enumCalls,
               !.detailCalls = @ + r1.detailCalls,
               !.provErrs = @ \cup r1.provErrs,
               !.guarded = @ \cup r1.guarded,
               !.direct = @ \cup r1.direct,
               !.dropped = @ \cup r1.dropped]

\* A request is made through manager.retry when the kind has one.
Via(d, kind, r) ==
    IF d.retry THEN [r EXCEPT !.guarded = @ \cup {kind}]
    ELSE [r EXCEPT !.direct = @ \cup {kind}]

\* -------------------------------------------------------------- provider
\* Request parameter of an enumeration: none, an id list, or one id.
NoParam == [kind |-> "none", ids |-> <<>>]

\* The records the provider lists.  emptyAll: whether the provider reads an
\* empty id list as "no filter".
ProviderList(d, q, p, emptyAll) ==
    LET base == Inventory(q)
        keep(i) == CASE p.kind = "list" ->
                          IF p.ids = <<>> THEN emptyAll ELSE i \in Range(p.ids)
                     [] p.kind = "scalar" -> i = p.ids[1]
                     [] OTHER -> TRUE
        ids == SelectSeq(base, keep)
    IN [k \in 1..Len(ids) |-> Item(d, ids[k])]

DetailPayload == "D" :> "d"

\* Response of a detail operation: the payload at the response path when
\* the spec declares one, else the payload at top level.
DetailResponse(d, i) ==
    IF d.detail_path
    THEN ("ResponseMetadata" :> "m") @@ ("Path" :> DetailPayload)
    ELSE ("ResponseMetadata" :> "m") @@ DetailPayload

\* Batch detail response: one entry per requested id.
BatchResponse(ids) ==
    ("ResponseMetadata" :> "m") @@
    ("Path" :> [k \in 1..Len(ids) |-> ("Id" :> ids[k]) @@ DetailPayload])

\* ---------------------------------------------------------- ResourceQuery
\* Variant: an error of the enumeration is read as an empty listing.
QueryFilterSwallow(d, q, p, o, emptyAll) ==
    IF o # "ok"
    THEN [Res0 EXCEPT !.enumCalls = 1, !.provErrs = {o}]
    ELSE [Res0 EXCEPT !.val = ProviderList(d, q, p, emptyAll), !.enumCalls = 1]

QueryFilter(d, q, p, o, emptyAll) ==
    IF o # "ok"
    THEN [Res0 EXCEPT !.err = o, !.enumCalls = 1, !.provErrs = {o}]
    ELSE [Res0 EXCEPT !.val = ProviderList(d, q, p, emptyAll), !.enumCalls = 1]

\* ResourceQuery.get reads m.filter_name and, when it is set, m.filter_type:
\* a resource_type class without the attribute raises AttributeError.
MissingAttribute(d) == d.filter_type \in {"absent", "noname"}

\* Variant: the list form sends the first id only.
FilterParamFirst(d, ids) ==
    CASE d.filter_type = "list" ->
            [kind |-> "list", ids |-> SubSeq(ids, 1, Min(1, Len(ids)))]
      [] d.filter_type = "scalar" -> [kind |-> "scalar", ids |-> <<ids[1]>>]
      [] OTHER -> NoParam

\* The server-side filter parameter of get: params[m.filter_name] is the id
\* list for 'list' and identities[0] for 'scalar'; nothing is set otherwise.
FilterParam(d, ids) ==
    CASE d.filter_type = "list" -> [kind |-> "list", ids |-> ids]
      [] d.filter_type = "scalar" -> [kind |-> "scalar", ids |-> <<ids[1]>>]
      [] OTHER -> NoParam

\* Variant: the client-side filter is left out.
QueryGetUnfiltered(d, ids, o, emptyAll) ==
    IF MissingAttribute(d)
    THEN [Res0 EXCEPT !.err = "AttributeError"]
    ELSE IF d.filter_type = "scalar" /\ Len(ids) # 1
    THEN [Res0 EXCEPT !.err = "AssertionError"]
    ELSE
      LET p == FilterParam(d, ids)
      IN [QueryFilter(d, "None", p, o, emptyAll) EXCEPT !.direct = {"enum"}]

QueryGet(d, ids, o, emptyAll) ==
    IF MissingAttribute(d)
    THEN [Res0 EXCEPT !.err = "AttributeError"]
    ELSE IF d.filter_type = "scalar" /\ Len(ids) # 1
    THEN [Res0 EXCEPT !.err = "AssertionError"]
    ELSE
      LET p == FilterParam(d, ids)
          client_filter == d.filter_type = "none"
          r == QueryFilter(d, "None", p, o, emptyAll)
          in(x) == x["Id"] \in Range(ids)
      IN IF Failed(r) \/ ~client_filter THEN [r EXCEPT !.direct = {"enum"}]
         ELSE [r EXCEPT !.val = SelectSeq(r.val, in), !.direct = {"enum"}]

\* ------------------------------------------------------------ chunks
RECURSIVE chunks(_, _)
chunks(s, n) ==
    IF s = <<>> THEN <<>>
    ELSE <<SubSeq(s, 1, Min(n, Len(s)))>> \o
         chunks(SubSeq(s, Min(n, Len(s)) + 1, Len(s)), n)

NumChunks(len, n) == (len + n - 1) \div n

\* What happens to one chunk: fail = 0, every call of the chunk answers, or
\* the fail-th call of the chunk is answered with the error code.
ChunkOutcomes(n) ==
    {[fail |-> 0, code |-> "ok"]} \cup
    [fail : 1..n, code : Outcomes \ {"ok"}]

ChunkFails(b, len) == b.fail \in 1..len

\* ------------------------------------------------------- augmentation
\* Variant: the response path decides between replacing and merging.
ScalarMergeByPath(d, r) ==
    LET raw == DetailResponse(d, IdOf(r))
        response == IF d.detail_path THEN raw["Path"]
                    ELSE Pop(raw, "ResponseMetadata")
    IN IF ~d.detail_path
       THEN Update(response, "Id" :> IdOf(r))
       ELSE Update(r, response)

\* One resource through the scalar strategy, given the detail response.
ScalarMerge(d, r) ==
    LET raw == DetailResponse(d, IdOf(r))
        response == IF d.detail_path THEN raw["Path"]
                    ELSE Pop(raw, "ResponseMetadata")
    IN IF ~d.param_key
       THEN Update(response, "Id" :> IdOf(r))
       ELSE Update(r, response)

\* _scalar_augment on one chunk: one detail call per resource, in order;
\* the first error ends the chunk.
ScalarAugment(d, resource_set, b) ==
    IF ChunkFails(b, Len(resource_set))
    THEN Via(d, "detail",
             [Res0 EXCEPT !.err = b.code, !.detailCalls = b.fail,
                          !.provErrs = {b.code}])
    ELSE Via(d, "detail",
             [Res0 EXCEPT !.val = [k \in 1..Len(resource_set) |->
                                      ScalarMerge(d, resource_set[k])],
                          !.detailCalls = Len(resource_set)])

\* The id list _batch_augment sends for one chunk: r[param_key] of every
\* record, or the record itself when the spec has no param_key.
BatchRequest(resource_set) ==
    [k \in 1..Len(resource_set) |-> IdOf(resource_set[k])]

\* Variant: one detail call per record of the chunk.
BatchAugmentPerRecord(d, resource_set, b) ==
    LET ids == BatchRequest(resource_set)
    IN IF ChunkFails(b, 1)
       THEN Via(d, "detail",
                [Res0 EXCEPT !.err = b.code, !.detailCalls = 1,
                             !.provErrs = {b.code}])
       ELSE Via(d, "detail",
                [Res0 EXCEPT !.val = BatchResponse(ids)["Path"],
                             !.detailCalls = Len(resource_set)])

\* _batch_augment on one chunk: one detail call for the whole chunk.
BatchAugment(d, resource_set, b) ==
    LET ids == BatchRequest(resource_set)
    IN IF ChunkFails(b, 1)
       THEN Via(d, "detail",
                [Res0 EXCEPT !.err = b.code, !.detailCalls = 1,
                             !.provErrs = {b.code}])
       ELSE Via(d, "detail",
                [Res0 EXCEPT !.val = BatchResponse(ids)["Path"],
                             !.detailCalls = 1])

\* Variant: batch_detail_spec is looked at first.
StrategyBatchFirst(d) ==
    IF d.detail \in {"batch", "both"} THEN "batch"
    ELSE IF d.detail = "scalar" THEN "scalar"
    ELSE "none"

\* Which strategy DescribeSource.augment picks: detail_spec is looked at
\* first, then batch_detail_spec.
Strategy(d) ==
    IF d.detail \in {"scalar", "both"} THEN "scalar"
    ELSE IF d.detail = "batch" THEN "batch"
    ELSE "none"

\* list(w.map(_augment, chunks)) then chain: the chunks' results in chunk
\* order; the first failed chunk, in chunk order, raises.  Every chunk is
\* submitted before the first result is read.
RECURSIVE MapChunks(_, _, _, _)
MapChunks(d, cs, bs, k) ==
    IF k > Len(cs) THEN Res0
    ELSE LET one == IF Strategy(d) = "scalar"
                    THEN ScalarAugment(d, cs[k], bs[k])
                    ELSE BatchAugment(d, cs[k], bs[k])
             rest == MapChunks(d, cs, bs, k + 1)
         IN IF Failed(one) THEN After(rest, [one EXCEPT !.val = <<>>])
            ELSE IF Failed(rest) THEN After(one, rest)
            ELSE After(one, [rest EXCEPT !.val = one.val \o @])

\* DescribeSource.augment of a manager whose chunk_size attribute is size.
\* tasks: how many tasks were handed to the executor.
DescribeAugmentSized(d, resources, bs, size) ==
    IF Strategy(d) = "none"
    THEN [res |-> [Res0 EXCEPT !.val = resources], tasks |-> 0]
    ELSE [res |-> MapChunks(d, chunks(resources, size), bs, 1),
          tasks |-> NumChunks(Len(resources), size)]

\* Variant: without a detail spec the empty list is returned.
DescribeAugmentEmpty(d, resources, bs) ==
    IF Strategy(d) = "none"
    THEN [res |-> Res0, tasks |-> 0]
    ELSE [res |-> MapChunks(d, chunks(resources, chunk_size), bs, 1),
          tasks |-> NumChunks(Len(resources), chunk_size)]

\* DescribeSource.augment with the chunk_size of QueryResourceManager.
DescribeAugment(d, resources, bs) ==
    DescribeAugmentSized(d, resources, bs, chunk_size)

\* Variant: AccessDenied is raised like every other error.
SQSAugmentRaise(d, resources, outs) ==
    LET n == Len(resources)
        bad == {k \in 1..n : outs[k] # "ok"}
        first == CHOOSE k \in bad : \A j \in bad : k <= j
        acct == [Res0 EXCEPT
                   !.detailCalls = n,
                   !.direct = IF n > 0 THEN {"detail"} ELSE {},
                   !.provErrs = {outs[k] : k \in 1..n} \ {"ok"}]
    IN [res |-> IF bad # {} THEN [acct EXCEPT !.err = outs[first]]
                ELSE [acct EXCEPT !.val = [k \in 1..n |->
                         Update(DetailPayload, "Id" :> IdOf(resources[k]))]],
        tasks |-> n]

\* SQS.augment: one task per queue; AccessDenied leaves the queue out, any
\* other error is raised; outs[k] is the provider's answer for queue k.
SQSAugment(d, resources, outs) ==
    LET n == Len(resources)
        bad == {k \in 1..n : outs[k] \notin {"ok", "AccessDenied"}}
        first == CHOOSE k \in bad : \A j \in bad : k <= j
        kept(r) == \E k \in 1..n : resources[k] = r /\ outs[k] = "ok"
        queue(r) == Update(DetailPayload, "Id" :> IdOf(r))
        ok == SelectSeq(resources, kept)
        acct == [Res0 EXCEPT
                   !.detailCalls = n,
                   !.direct = IF n > 0 THEN {"detail"} ELSE {},
                   !.provErrs = {outs[k] : k \in 1..n} \ {"ok"},
                   !.dropped = {IdOf(resources[k]) :
                                  k \in {j \in 1..n : outs[j] = "AccessDenied"}}]
    IN [res |-> IF bad # {} THEN [acct EXCEPT !.err = outs[first]]
                ELSE [acct EXCEPT !.val = [k \in 1..Len(ok) |-> queue(ok[k])]],
        tasks |-> n]

\* --------------------------------------------------------- ConfigSource
\* ConfigSource.get_resources: one get_resource_config_history call per id,
\* in order; an error of the provider is not caught here.
ConfigGetResources(ids, b) ==
    IF ChunkFails(b, Len(ids))
    THEN [Res0 EXCEPT !.err = b.code, !.detailCalls = b.fail,
                      !.provErrs = {b.code}, !.direct = {"detail"}]
    ELSE [Res0 EXCEPT !.val = [k \in 1..Len(ids) |-> Item(ConfigDescriptor, ids[k])],
                      !.detailCalls = Len(ids),
                      !.direct = IF ids = <<>> THEN {} ELSE {"detail"}]

\* The loop over chunks(resource_ids, 50): each chunk is submitted and
\* waited for before the next.  When the future holds an exception the
\* handler evaluates self.log, an attribute Source does not have.
RECURSIVE ConfigFetch(_, _, _)
ConfigFetch(cs, bs, k) ==
    IF k > Len(cs) THEN Res0
    ELSE LET f == ConfigGetResources(cs[k], bs[k])
         IN IF Failed(f) THEN [f EXCEPT !.err = "AttributeError"]
            ELSE LET rest == ConfigFetch(cs, bs, k + 1)
                 IN IF Failed(rest) THEN After(f, rest)
                    ELSE After(f, [rest EXCEPT !.val = f.val \o @])

\* ConfigSource.resources(query): the query is not used.
ConfigResources(o, bs) ==
    IF o # "ok"
    THEN [Res0 EXCEPT !.err = o, !.enumCalls = 1, !.provErrs = {o},
                      !.direct = {"enum"}]
    ELSE After([Res0 EXCEPT !.enumCalls = 1, !.direct = {"enum"}],
               ConfigFetch(chunks(Existing, ConfigChunk), bs, 1))

\* DescribeSource.resources(query)
DescribeResources(d, q, o) ==
    Via(d, "enum", QueryFilter(d, q, NoParam, o, TRUE))

\* -------------------------------------------------- QueryResourceManager
\* filter_resources: the filter chain keeps the records it accepts, in order;
\* a chain is the set of ids its filters accept.
Chains == {AllIds, {"a"}}
FilterResources(resources, chain) ==
    LET accept(r) == r["Id"] \in chain
    IN SelectSeq(resources, accept)

\* QueryResourceManager.augment, with the SQS override.
ManagerAugment(d, resources, bs) ==
    IF d.kind = "sqs" THEN SQSAugment(d, resources, bs)
    ELSE IF d.source = "config"
    THEN [res |-> [Res0 EXCEPT !.val = resources], tasks |-> 0]
    ELSE DescribeAugment(d, resources, bs)

\* What the provider may do during the augmentation of the resources.
AugmentChoices(d, resources) ==
    LET n == Len(resources)
    IN IF d.kind = "sqs" THEN [1..n -> Outcomes]
       ELSE IF d.source = "config" \/ Strategy(d) = "none" THEN {<<>>}
       ELSE [1..NumChunks(n, chunk_size) ->
                ChunkOutcomes(IF Strategy(d) = "batch" THEN 1
                              ELSE Min(n, chunk_size))]

\* What the provider may do during source.resources(query).
EnumChoices(d) ==
    IF d.source = "config"
    THEN [o : Outcomes \ {"ok"}, bs : {<<>>}] \cup
         [o : {"ok"},
          bs : [1..NumChunks(Len(Existing), ConfigChunk) ->
                   ChunkOutcomes(Min(Len(Existing), ConfigChunk))]]
    ELSE [o : Outcomes, bs : {<<>>}]

SourceResources(d, q, c) ==
    IF d.source = "config" THEN ConfigResources(c.o, c.bs)
    ELSE DescribeResources(d, q, c.o)

\* What the provider may do during source.get_resources(ids).
LookupChoices(d, ids) ==
    IF d.source = "config"
    THEN [o : {"ok"}, bs : {<<b>> : b \in ChunkOutcomes(Len(ids))},
          emptyAll : {TRUE}]
    ELSE [o : Outcomes, bs : {<<>>},
          emptyAll : IF d.filter_type = "list" /\ ids = <<>>
                     THEN BOOLEAN ELSE {TRUE}]

SourceGetResources(d, ids, c) ==
    IF d.source = "config" THEN ConfigGetResources(ids, c.bs[1])
    ELSE QueryGet(d, ids, c.o, c.emptyAll)

VARIABLES
    desc,        \* the resource descriptor of the manager's kind
    cacheUsable, \* what Cache.load() answers
    cache,       \* the saved entries, by query of the cache key
    last,        \* the call of the manager that has just completed
    prev,        \* summary of the call the caller took the result of before
    pc,          \* "new" (class not yet defined), "idle", "done" (a result
                 \* is held in last), or "s3" (S3.augment in progress)
    asm,         \* state of S3.augment / assemble_bucket
    fn           \* the library operation applied last, with its arguments
                 \* and its result (used where operations are run alone)

vars == <<desc, cacheUsable, cache, last, prev, pc, asm, fn>>

\* No operation has been applied.
NoFn == [name |-> "none"]

NoCall ==
    [op |-> "none", q |-> "None", ids |-> <<>>, useCache |-> FALSE,
     chain |-> AllIds, hit |-> FALSE, saved |-> FALSE, warned |-> FALSE,
     inner |-> "none", augmented |-> FALSE, augIn |-> <<>>, augOut |-> <<>>,
     tasks |-> 0, res |-> Res0]

\* What is remembered of a call once its result is taken: whether it was a
\* resources() call that missed the cache and returned, its query and how
\* many enumeration requests it issued.
NoPrev == [miss |-> FALSE, q |-> "None", enumCalls |-> 0]
Summary(c) ==
    IF c.op = "resources" /\ ~c.hit /\ ~Failed(c.res)
    THEN [miss |-> TRUE, q |-> c.q, enumCalls |-> c.res.enumCalls]
    ELSE NoPrev

\* S3.augment in progress: the buckets not yet assembled, the results so
\* far, and the assemble_bucket run of the bucket at hand: its record b, the
\* methods list, the position of the for loop in it and the region of c.
NoAsm ==
    [todo |-> <<>>, results |-> <<>>, active |-> FALSE, b |-> <<>>,
     methods |-> <<>>, i |-> 1, region |-> "us-east-1"]

\* A call of the manager completes.
Complete(call, newCache) ==
    /\ last' = call
    /\ cache' = newCache
    /\ pc' = "done"
    /\ UNCHANGED <<fn, desc, cacheUsable, prev, asm>>

CacheKeys == DOMAIN cache

\* Variant: the save is left out.
CacheSaveDropped(c, key, resources) == c

\* Cache.save(key, resources): the whole entry is replaced.
CacheSave(c, key, resources) == (key :> resources) @@ c

\* The call record after source lookup e and, when that did not raise, the
\* augmentation a of its result: inner is the error they raised, if any.
Ran(call, e, a) ==
    LET r == After(e, a.res)
    IN [call EXCEPT !.res = r, !.inner = r.err, !.tasks = a.tasks,
                    !.augmented = TRUE, !.augIn = e.val, !.augOut = a.res.val,
                    !.warned = r.dropped # {}]
NotRan(call, e) == [call EXCEPT !.res = e, !.inner = e.err]

\* Variant: the filter chain runs before the save.
ResourcesTailSaveFiltered(call) ==
    IF Failed(call.res)
    THEN Complete(call, cache)
    ELSE Complete([call EXCEPT !.res.val = FilterResources(@, call.chain),
                               !.saved = TRUE],
                  CacheSave(cache, call.q,
                            FilterResources(call.res.val, call.chain)))

\* resources(query): the tail after enumeration and augmentation.
\* A raise leaves the cache alone; else save, then the filter chain.
ResourcesTail(call) ==
    IF Failed(call.res)
    THEN Complete(call, cache)
    ELSE Complete([call EXCEPT !.res.val = FilterResources(@, call.chain),
                               !.saved = TRUE],
                  CacheSave(cache, call.q, call.res.val))

\* The cache lookup at the head of resources(query).
CacheHit(q) == cacheUsable /\ q \in CacheKeys

\* Variant: a hit saves what it returns.
ResourcesSaveOnHit(q, chain) ==
    LET call == [NoCall EXCEPT !.op = "resources", !.q = q, !.chain = chain]
    IN
    /\ pc = "idle"
    /\ desc.kind # "s3"
    /\ IF CacheHit(q)
       THEN Complete([call EXCEPT !.hit = TRUE,
                                  !.res.val = FilterResources(cache[q], chain)],
                     CacheSave(cache, q, FilterResources(cache[q], chain)))
       ELSE \E c \in EnumChoices(desc) :
              LET e == SourceResources(desc, q, c)
              IN IF Failed(e) THEN ResourcesTail(NotRan(call, e))
                 ELSE \E bs \in AugmentChoices(desc, e.val) :
                        ResourcesTail(Ran(call, e, ManagerAugment(desc, e.val, bs)))

\* QueryResourceManager.resources(query) followed by the given filter chain.
Resources(q, chain) ==
    LET call == [NoCall EXCEPT !.op = "resources", !.q = q, !.chain = chain]
    IN
    /\ pc = "idle"
    /\ desc.kind # "s3"
    /\ IF CacheHit(q)
       THEN Complete([call EXCEPT !.hit = TRUE,
                                  !.res.val = FilterResources(cache[q], chain)],
                     cache)
       ELSE \E c \in EnumChoices(desc) :
              LET e == SourceResources(desc, q, c)
              IN IF Failed(e) THEN ResourcesTail(NotRan(call, e))
                 ELSE \E bs \in AugmentChoices(desc, e.val) :
                        ResourcesTail(Ran(call, e, ManagerAugment(desc, e.val, bs)))

\* Variant: not-found is let through by the except clause.
CaughtExceptNotFound(err) == err \in ClientErrorCodes \ {"NotFound"}

\* Which errors the except clause of get_resources catches.
Caught(err) == err \in ClientErrorCodes

\* Variant: no except clause, every error is raised to the caller.
GetResourcesTailReraise(call) == Complete(call, cache)

\* get_resources: the try / except ClientError around lookup and augment.
GetResourcesTail(call) ==
    IF Caught(call.res.err)
    THEN Complete([call EXCEPT !.res.err = "none", !.res.val = <<>>,
                               !.warned = TRUE], cache)
    ELSE Complete(call, cache)

\* Variant: the cache is consulted whatever the cache argument.
GetResourcesAlwaysCached(ids, useCache) ==
    LET call == [NoCall EXCEPT !.op = "get_resources", !.ids = ids,
                               !.useCache = useCache]
        wanted(r) == r["Id"] \in Range(ids)
    IN
    /\ pc = "idle"
    /\ desc.kind # "s3"
    /\ IF CacheHit("None")
       THEN Complete([call EXCEPT !.hit = TRUE,
                                  !.res.val = SelectSeq(cache["None"], wanted)],
                     cache)
       ELSE \E c \in LookupChoices(desc, ids) :
              LET e == SourceGetResources(desc, ids, c)
              IN IF Failed(e) THEN GetResourcesTail(NotRan(call, e))
                 ELSE \E bs \in AugmentChoices(desc, e.val) :
                        GetResourcesTail(Ran(call, e, ManagerAugment(desc, e.val, bs)))

\* QueryResourceManager.get_resources(ids, cache)
GetResources(ids, useCache) ==
    LET call == [NoCall EXCEPT !.op = "get_resources", !.ids = ids,
                               !.useCache = useCache]
        wanted(r) == r["Id"] \in Range(ids)
    IN
    /\ pc = "idle"
    /\ desc.kind # "s3"
    /\ IF useCache /\ CacheHit("None")
       THEN Complete([call EXCEPT !.hit = TRUE,
                                  !.res.val = SelectSeq(cache["None"], wanted)],
                     cache)
       ELSE \E c \in LookupChoices(desc, ids) :
              LET e == SourceGetResources(desc, ids, c)
              IN IF Failed(e) THEN GetResourcesTail(NotRan(call, e))
                 ELSE \E bs \in AugmentChoices(desc, e.val) :
                        GetResourcesTail(Ran(call, e, ManagerAugment(desc, e.val, bs)))

\* QueryMeta.__new__ for the class of the manager: no attribute of
\* resource_type is checked; a kind of service 'ec2' gets the retry.
QueryMeta(d) == [d EXCEPT !.retry = (d.service = "ec2")]

\* The manager class is defined (and registered under its name).
Define ==
    /\ pc = "new"
    /\ desc' = QueryMeta(desc)
    /\ pc' = "idle"
    /\ UNCHANGED <<fn, cacheUsable, cache, last, prev, asm>>

\* ------------------------------------------------------------ S3.augment
S3_AUGMENT_TABLE ==
    << [m |-> "get_bucket_location", k |-> "Location", default |-> "None", select |-> "None"],
       [m |-> "get_bucket_tagging", k |-> "Tags", default |-> "[]", select |-> "TagSet"],
       [m |-> "get_bucket_policy", k |-> "Policy", default |-> "None", select |-> "Policy"],
       [m |-> "get_bucket_acl", k |-> "Acl", default |-> "None", select |-> "None"],
       [m |-> "get_bucket_replication", k |-> "Replication", default |-> "None", select |-> "None"],
       [m |-> "get_bucket_versioning", k |-> "Versioning", default |-> "None", select |-> "None"],
       [m |-> "get_bucket_website", k |-> "Website", default |-> "None", select |-> "None"],
       [m |-> "get_bucket_logging", k |-> "Logging", default |-> "None", select |-> "LoggingEnabled"],
       [m |-> "get_bucket_notification_configuration", k |-> "Notification", default |-> "None", select |-> "None"] >>

\* The entries the model runs.
Methods == SubSeq(S3_AUGMENT_TABLE, 1, Min(TableLen, Len(S3_AUGMENT_TABLE)))

\* The LocationConstraint the provider reports for a bucket.
LocationConstraint(name) == IF name = "a" THEN "None" ELSE "EU"

\* The value a method's answer leaves in v; for the location, after the
\* rewriting of 'EU'.
Answer(e, name) ==
    IF e.k = "Location"
    THEN (IF LocationConstraint(name) = "EU" THEN "loc:eu-west-1" ELSE "loc:None")
    ELSE "v"

\* Region of the client once the location v is known.
LocatedRegion(v) == IF v = "loc:None" THEN "us-east-1" ELSE "eu-west-1"

\* bucket_client(session, b): the region the corrected client is made for.
bucket_client(b) ==
    IF "Location" \notin DOMAIN b \/ b["Location"] = "None" THEN "us-east-1"
    ELSE LocatedRegion(b["Location"])

\* How often a method is in the methods list.
Queued(methods, m) == Cardinality({j \in 1..Len(methods) : methods[j].m = m})

\* The body of the for loop of assemble_bucket for the entry at hand, given
\* the provider's answer o.  ret: "" while the loop goes on, "None" when
\* assemble_bucket returns None.
AssembleBody(a, o) ==
    LET e == a.methods[a.i]
        name == a.b["Id"]
    IN CASE o = "ok" ->
              LET v == Answer(e, name)
              IN [a EXCEPT !.b = Update(@, e.k :> v), !.i = @ + 1,
                           !.region = IF e.k = "Location" THEN LocatedRegion(v) ELSE @]
         [] o = "SSLError" -> [a EXCEPT !.i = @ + 1]
         [] o = "NotFound" ->
              [a EXCEPT !.b = Update(@, e.k :> e.default), !.i = @ + 1]
         [] o = "PermanentRedirect" ->
              [a EXCEPT !.region = bucket_client(a.b),
                        !.methods = Append(@, e), !.i = @ + 1]
         [] OTHER -> [a EXCEPT !.active = FALSE, !.results = Append(@, <<>>),
                               !.b = <<>>, !.methods = <<>>, !.i = 1,
                               !.region = "us-east-1"]

\* S3.augment(buckets) is called with the buckets enumerated under q.
S3Augment(q) ==
    /\ pc = "idle"
    /\ desc.kind = "s3"
    /\ pc' = "s3"
    /\ asm' = [NoAsm EXCEPT !.todo = ProviderList(desc, q, NoParam, TRUE)]
    /\ last' = [NoCall EXCEPT !.op = "augment", !.q = q,
                              !.tasks = Len(Inventory(q))]
    /\ UNCHANGED <<fn, desc, cacheUsable, cache, prev>>

\* assemble_bucket(item) starts on the next bucket.
AssembleStart ==
    /\ pc = "s3"
    /\ ~asm.active
    /\ asm.todo # <<>>
    /\ asm' = [asm EXCEPT !.todo = Tail(@), !.active = TRUE, !.b = Head(asm.todo),
                          !.methods = Methods, !.i = 1, !.region = "us-east-1"]
    /\ UNCHANGED <<fn, desc, cacheUsable, cache, last, prev, pc>>

\* One turn of the for loop: one provider call and what follows from it.
\* The provider answers PermanentRedirect at most MaxRequeue times a run.
AssembleStep(o) ==
    /\ pc = "s3"
    /\ asm.active
    /\ asm.i <= Len(asm.methods)
    /\ o = "PermanentRedirect" => Len(asm.methods) < Len(Methods) + MaxRequeue
    /\ asm' = AssembleBody(asm, o)
    /\ last' = [last EXCEPT
                  !.res.detailCalls = @ + 1,
                  !.res.direct = {"detail"},
                  !.res.provErrs = IF o = "ok" THEN @ ELSE @ \cup {o},
                  !.warned = @ \/ o \notin {"ok", "NotFound", "PermanentRedirect"},
                  !.res.dropped = IF asm'.active THEN @ ELSE @ \cup {asm.b["Id"]}]
    /\ UNCHANGED <<fn, desc, cacheUsable, cache, prev, pc>>

\* The methods list is exhausted: assemble_bucket returns b.
AssembleReturn ==
    /\ pc = "s3"
    /\ asm.active
    /\ asm.i > Len(asm.methods)
    /\ asm' = [asm EXCEPT !.active = FALSE, !.results = Append(@, asm.b),
                          !.b = <<>>, !.methods = <<>>, !.i = 1,
                          !.region = "us-east-1"]
    /\ UNCHANGED <<fn, desc, cacheUsable, cache, last, prev, pc>>

\* filter(None, results): S3.augment returns the buckets assembled.
S3AugmentReturn ==
    LET some(b) == b # <<>>
    IN
    /\ pc = "s3"
    /\ ~asm.active
    /\ asm.todo = <<>>
    /\ last' = [last EXCEPT !.res.val = SelectSeq(asm.results, some)]
    /\ asm' = NoAsm
    /\ pc' = "done"
    /\ UNCHANGED <<fn, desc, cacheUsable, cache, prev>>

\* The caller takes the result (or the exception) of the completed call.
Return ==
    /\ pc = "done"
    /\ prev' = Summary(last)
    /\ last' = NoCall
    /\ pc' = "idle"
    /\ UNCHANGED <<fn, desc, cacheUsable, cache, asm>>

Init ==
    /\ desc \in Descriptors
    /\ cacheUsable \in BOOLEAN
    /\ cache = <<>>
    /\ last = NoCall
    /\ prev = NoPrev
    /\ pc = "new"
    /\ asm = NoAsm
    /\ fn = NoFn

Next ==
    \/ Define
    \/ \E q \in Queries, chain \in Chains : Resources(q, chain)
    \/ \E ids \in SeqsUpTo(AllIds, MaxIds), useCache \in BOOLEAN :
          GetResources(ids, useCache)
    \/ \E q \in Queries : S3Augment(q)
    \/ AssembleStart
    \/ \E o \in Outcomes : AssembleStep(o)
    \/ AssembleReturn
    \/ S3AugmentReturn
    \/ Return

Spec == Init /\ [][Next]_vars

\* ===================================================================
\* Operations run alone
\* ===================================================================
\* The operations below are functions of their arguments.  SpecFn applies
\* them to arguments drawn from bounded sets and keeps the application in
\* fn; the manager of Spec stays as constructed.
MaxN == 4            \* longest resource list handed to augment
MaxChunk == 3        \* largest chunk_size of a manager

InitFn ==
    /\ desc = ConfigDescriptor
    /\ cacheUsable = FALSE
    /\ cache = <<>>
    /\ last = NoCall
    /\ prev = NoPrev
    /\ pc = "fn"
    /\ asm = NoAsm
    /\ fn = NoFn

\* No operation is under way.
Ready == pc = "fn" /\ fn.name = "none"

\* The caller takes the result of the operation.
Forget ==
    /\ pc = "fn"
    /\ fn.name # "none"
    /\ fn.name \in {"retry", "pool"} => fn.status # "running"
    /\ fn' = NoFn
    /\ UNCHANGED <<desc, cacheUsable, cache, last, prev, pc, asm>>

\* The operation whose application is f has run.
Applied(f) ==
    /\ fn' = f
    /\ UNCHANGED <<desc, cacheUsable, cache, last, prev, pc, asm>>

\* -------------------------------------------- DescribeSource.augment, batch
\* Kinds that declare a batch_detail_spec only.
BatchDescriptors ==
    {d \in GenericDescriptors :
        d.detail = "batch" /\ d.filter_type = "list" /\ d.service = "kv"}

\* n enumerated records of kind d.
FnResources(d, n) == [k \in 1..n |-> Item(d, k)]

\* The provider answers a batch call, or throttles it.
ChunkAnswers ==
    {[fail |-> 0, code |-> "ok"], [fail |-> 1, code |-> "Throttled"]}

\* source.augment(resources) of a manager with chunk_size = size, for n
\* records and the provider's answers bs to the chunks' calls.  requests:
\* the id list of every detail call, in chunk order.
ApplyAugment ==
    /\ Ready
    /\ \E d \in BatchDescriptors, n \in 0..MaxN, size \in 1..MaxChunk :
         LET resources == FnResources(d, n)
             cs == chunks(resources, size)
         IN \E bs \in [1..Len(cs) -> ChunkAnswers] :
              LET a == DescribeAugmentSized(d, resources, bs, size)
              IN Applied([name |-> "augment", d |-> d, n |-> n,
                          size |-> size, bs |-> bs,
                          requests |-> [k \in 1..Len(cs) |->
                                           BatchRequest(cs[k])],
                          out |-> a.res, tasks |-> a.tasks])

\* -------------------------------------------------- ResourceQuery.filter
\* Keyword arguments: functions from parameter names to values.  The third
\* element of enum_spec is None (written <<>>) or such a function.
ParamKeys == {"OwnerIds", "Filters"}
ParamValues == {"self", "all"}
ParamDicts == UNION {[ks -> ParamValues] : ks \in SUBSET ParamKeys}

\* Variant: the caller's value is kept for a key given twice.
RequestParamsCallerWins(extra_args, params) ==
    IF extra_args # <<>> THEN Update(extra_args, params) ELSE params

\* The keyword arguments ResourceQuery.filter hands to the client:
\* params.update(extra_args) when extra_args is set.
RequestParams(extra_args, params) ==
    IF extra_args # <<>> THEN Update(params, extra_args) ELSE params

ApplyFilter ==
    /\ Ready
    /\ \E extra_args \in ParamDicts, params \in ParamDicts :
         Applied([name |-> "filter", extra_args |-> extra_args,
                  params |-> params,
                  sent |-> RequestParams(extra_args, params)])

\* ----------------------------------------------------- ResourceQuery.get
\* Kinds without a detail spec, one for every form of server-side filter.
GetDescriptors ==
    {d \in GenericDescriptors : d.detail = "none" /\ d.service = "kv"}

\* No enumeration request is made.
Unsent == [kind |-> "unsent", ids |-> <<>>]

\* query.get(resource_type, ids).  request: the filter parameter of the
\* enumeration request, or Unsent.
ApplyGet ==
    /\ Ready
    /\ \E d \in GetDescriptors, ids \in SeqsUpTo(AllIds, MaxIds),
          o \in {"ok", "Throttled"}, emptyAll \in BOOLEAN :
         LET out == QueryGet(d, ids, o, emptyAll)
         IN Applied([name |-> "get", d |-> d, ids |-> ids, o |-> o,
                     request |-> IF out.enumCalls = 0 THEN Unsent
                                 ELSE FilterParam(d, ids),
                     out |-> out])

\* ------------------------------------------------------------ get_retry
\* retry = get_retry(codes, max_attempts); retry(func) invokes func until it
\* answers, raises an error whose code is not in codes, or has been invoked
\* max_attempts times.  calls: the provider's answers to the invocations so
\* far; status: "running", "returned" or "raised".
MaxAttempts == 3     \* largest max_attempts of a policy
RetryCodes == {"Throttled"}
AttemptOutcomes == {"ok", "Throttled", "AccessDenied", "SSLError"}

RetryCall ==
    /\ Ready
    /\ \E max_attempts \in 1..MaxAttempts :
         Applied([name |-> "retry", calls |-> <<>>, status |-> "running",
                  err |-> "none", max |-> max_attempts])

\* Variant: the attempt after the last retry is still made.
RetryAttemptOneMore(o) ==
    /\ fn.name = "retry"
    /\ fn.status = "running"
    /\ LET calls == Append(fn.calls, o)
       IN Applied([fn EXCEPT
            !.calls = calls,
            !.status = IF o = "ok" THEN "returned"
                       ELSE IF o \notin RetryCodes \/ Len(calls) = fn.max + 1
                       THEN "raised" ELSE "running",
            !.err = IF o = "ok" THEN "none" ELSE o])

\* One invocation of func by the running retry, answered with o.
RetryAttempt(o) ==
    /\ fn.name = "retry"
    /\ fn.status = "running"
    /\ LET calls == Append(fn.calls, o)
       IN Applied([fn EXCEPT
            !.calls = calls,
            !.status = IF o = "ok" THEN "returned"
                       ELSE IF o \notin RetryCodes \/ Len(calls) = fn.max
                       THEN "raised" ELSE "running",
            !.err = IF o = "ok" THEN "none" ELSE o])

\* ------------------------------------------------------- get_permissions
\* The operation names of a resource_type: enum_spec[0], detail_spec[0] and
\* batch_detail_spec[0].
EnumOp == "list_streams"
DetailOp == "describe_stream"
BatchOp == "describe_stream_tags"

\* _napi: op_name.title().replace('_', '')
Napi(op_name) ==
    CASE op_name = "list_streams" -> "ListStreams"
      [] op_name = "describe_stream" -> "DescribeStream"
      [] op_name = "describe_stream_tags" -> "DescribeStreamTags"

\* '%s:%s' % (service, name), written as the pair.
Permission(service, name) == <<service, name>>

\* The class attribute permissions of a manager: empty, or as declared.
DeclaredPermissions == {<<>>, <<Permission("sns", "GetTopicAttributes")>>}

\* DescribeSource.get_permissions
DescribeGetPermissions(d) ==
    <<Permission(d.service, Napi(EnumOp))>> \o
    (IF d.detail \in {"scalar", "both"}
     THEN <<Permission(d.service, Napi(DetailOp))>> ELSE <<>>)

\* ConfigSource.get_permissions
ConfigGetPermissions ==
    <<Permission("config", "GetResourceConfigHistory"),
      Permission("config", "ListDiscoveredResources")>>

\* QueryResourceManager.get_permissions
GetPermissions(d, permissions) ==
    LET perms == IF d.source = "config" THEN ConfigGetPermissions
                 ELSE DescribeGetPermissions(d)
    IN IF permissions # <<>> THEN perms \o permissions ELSE perms

ApplyGetPermissions ==
    /\ Ready
    /\ \E d \in GenericDescriptors \cup {ConfigDescriptor},
          permissions \in DeclaredPermissions :
         Applied([name |-> "permissions", d |-> d,
                  permissions |-> permissions,
                  out |-> GetPermissions(d, permissions)])

\* ------------------------------------------------------- PluginRegistry
\* A registry binds names to types.  register(name, type) on a bound name
\* fails with DuplicateRegistration and leaves the binding, unless the
\* registration is a resource kind's explicit override of the binding.
EmptyRegistry == <<>>

\* Variant: an override of a bound name is rejected as well.
RegisterNoOverride(reg, name, type, override) ==
    IF name \in DOMAIN reg
    THEN [err |-> "DuplicateRegistration", reg |-> reg]
    ELSE [err |-> "none", reg |-> (name :> type) @@ reg]

Register(reg, name, type, override) ==
    IF name \in DOMAIN reg /\ ~override
    THEN [err |-> "DuplicateRegistration", reg |-> reg]
    ELSE [err |-> "none", reg |-> (name :> type) @@ reg]

\* QueryMeta.__new__ on the filter registry of the class: a kind with a
\* dimension gets the generic 'metrics' filter.
QueryMetaFilters(reg, dimension) ==
    IF dimension THEN Register(reg, "metrics", "MetricsFilter", FALSE)
    ELSE [err |-> "none", reg |-> reg]

\* ActionRegistry.__init__
ActionRegistryInit ==
    Register(Register(EmptyRegistry, "notify", "Notify", FALSE).reg,
             "invoke-lambda", "LambdaInvoke", FALSE).reg

\* The filter registry of s3.py once the class S3 (dimension 'BucketName')
\* is defined: 'marked-for-op' from the module, 'metrics' from QueryMeta.
S3FiltersAtClass ==
    QueryMetaFilters(
        Register(EmptyRegistry, "marked-for-op", "TagActionFilter", FALSE).reg,
        TRUE).reg

Registries ==
    {EmptyRegistry, ActionRegistryInit, S3FiltersAtClass,
     QueryMetaFilters(EmptyRegistry, TRUE).reg}
PluginNames == {"metrics", "notify", "marked-for-op", "cross-account"}
PluginTypes == {"MetricsFilter", "S3Metrics", "Notify"}

\* reg.register(name, type) by a caller that overrides nothing.
ApplyRegister ==
    /\ Ready
    /\ \E reg \in Registries, name \in PluginNames, type \in PluginTypes :
         Applied([name |-> "register", by |-> "caller", reg |-> reg,
                  key |-> name, type |-> type,
                  out |-> Register(reg, name, type, FALSE)])

\* @filters.register('metrics') class S3Metrics, below the class S3: the
\* kind's own metrics filter takes the place of the generic one.
LoadS3Metrics ==
    /\ Ready
    /\ Applied([name |-> "register", by |-> "s3", reg |-> S3FiltersAtClass,
                key |-> "metrics", type |-> "S3Metrics",
                out |-> Register(S3FiltersAtClass, "metrics", "S3Metrics",
                                 TRUE)])

\* ------------------------------------------------------------- match_ids
\* Ids are strings, written as sequences of characters.  id_prefix is an
\* attribute a resource_type may lack (set = FALSE).
MaxMatch == 3        \* longest id list handed to match_ids
CandidateIds ==
    {<<"s", "g", "-", "1">>, <<"s", "g", "-", "2">>, <<"s", "g">>,
     <<"v", "p", "c", "-", "1">>, <<"i", "-", "s", "g", "-">>}
IdPrefixes ==
    {[set |-> FALSE, value |-> <<>>]} \cup
    [set : {TRUE}, value : {<<"s", "g", "-">>, <<"v", "p", "c", "-">>, <<>>}]

\* str.startswith
StartsWith(i, prefix) ==
    /\ Len(prefix) <= Len(i)
    /\ SubSeq(i, 1, Len(prefix)) = prefix

\* Variant: the prefix may stand anywhere in the id.
MatchIdsAnywhere(id_prefix, ids) ==
    LET holds(i) == \E k \in 0..Len(i) :
                       StartsWith(SubSeq(i, k + 1, Len(i)), id_prefix.value)
    IN IF id_prefix.set THEN SelectSeq(ids, holds) ELSE ids

\* QueryResourceManager.match_ids
MatchIds(id_prefix, ids) ==
    LET starts(i) == StartsWith(i, id_prefix.value)
    IN IF id_prefix.set THEN SelectSeq(ids, starts) ELSE ids

ApplyMatchIds ==
    /\ Ready
    /\ \E id_prefix \in IdPrefixes, ids \in SeqsUpTo(CandidateIds, MaxMatch) :
         Applied([name |-> "match_ids", id_prefix |-> id_prefix,
                  ids |-> ids, out |-> MatchIds(id_prefix, ids)])

\* ------------------------------------------- SGPermission.process_ports
\* A permission either lacks FromPort / ToPort (has = FALSE) or carries the
\* range from..to.  found is Python's None, True or False.
MaxPort == 3         \* largest port number
MaxPortList == 2     \* longest Ports / OnlyPorts list
Permissions ==
    {[has |-> FALSE, from |-> 1, to |-> 1]} \cup
    {p \in [has : {TRUE}, from : 1..MaxPort, to : 1..MaxPort] : p.from <= p.to}

\* The for loop over self.ports: found after the ports from position k on,
\* the loop ending at the first port inside the range.
RECURSIVE PortsLoop(_, _, _, _)
PortsLoop(ports, perm, k, found) ==
    IF k > Len(ports) THEN found
    ELSE IF ports[k] >= perm.from /\ ports[k] <= perm.to THEN "True"
    ELSE PortsLoop(ports, perm, k + 1, "False")

\* SGPermission.process_ports
ProcessPorts(ports, only_ports, perm) ==
    IF ~perm.has THEN "None"
    ELSE LET found == PortsLoop(ports, perm, 1, "None")
             only_found == \E k \in 1..Len(only_ports) :
                              only_ports[k] = perm.from /\ only_ports[k] = perm.to
         IN IF only_ports # <<>> /\ ~only_found
            THEN (IF found = "None" \/ found = "True" THEN "True" ELSE "False")
            ELSE found

ApplyProcessPorts ==
    /\ Ready
    /\ \E ports \in SeqsUpTo(1..MaxPort, MaxPortList),
          only_ports \in SeqsUpTo(1..MaxPort, MaxPortList),
          perm \in Permissions :
         Applied([name |-> "process_ports", ports |-> ports,
                  only_ports |-> only_ports, perm |-> perm,
                  found |-> ProcessPorts(ports, only_ports, perm)])

\* ------------------------------------- resources(): cache and filter chain
\* Python hands lists and records on by reference.  A heap maps addresses
\* to records, a list is a sequence of addresses.  Cache.save(key, list) and
\* Cache.get(key) either keep and hand out the very objects (byRef) or
\* copies of them; the Cache interface leaves this to the implementation.
FilterKinds == {"ingress", "default-vpc"}

Deref(heap, list) == [k \in 1..Len(list) |-> heap[list[k]]]

\* The list source.resources / augment builds: n records at 1..n.
HeapAtLoad(n) == [a \in 1..n |-> ("Id" :> Existing[a]) @@ ("A" :> "e")]

\* filter_resources with one filter of the kind: SGPermission.__call__
\* ('ingress') sets resource['MatchedIpPermissions'] on the record it
\* accepts; SGDefaultVpc.__call__ ('default-vpc') only answers.  chain is
\* the set of ids the filter accepts.
FilterInPlace(heap, list, kind, chain) ==
    LET accept(a) == heap[a]["Id"] \in chain
        after == [a \in DOMAIN heap |->
                    IF a \in Range(list) /\ accept(a) /\ kind = "ingress"
                    THEN Update(heap[a], "MatchedIpPermissions" :> "m")
                    ELSE heap[a]]
    IN [heap |-> after, val |-> Deref(after, SelectSeq(list, accept))]

\* resources(query) and then Cache.get(key).  hit: the entry was saved by
\* an earlier call and resources() takes it from Cache.get; else
\* resources() loads the list and saves it.  atSave: the records of the
\* entry when it was saved; later: the records Cache.get(key) hands out
\* after resources() has returned, no Cache.save having been called since.
ApplyResourcesCached ==
    /\ Ready
    /\ \E n \in 0..Len(Existing), kind \in FilterKinds, chain \in Chains,
          hit \in BOOLEAN, byRef \in BOOLEAN :
         LET heap == HeapAtLoad(n)
             list == [k \in 1..n |-> k]
             f == FilterInPlace(heap, list, kind, chain)
         IN Applied([name |-> "cached", n |-> n, kind |-> kind,
                     chain |-> chain, hit |-> hit, byRef |-> byRef,
                     atSave |-> Deref(heap, list),
                     later |-> IF byRef THEN Deref(f.heap, list)
                               ELSE Deref(heap, list),
                     out |-> f.val])

\* ------------------------------ ModifyVpcSecurityGroupsAction.get_groups
\* A resource carries its security groups (groups, empty when the record
\* has none under 'Groups', 'SecurityGroups' or 'VpcSecurityGroups') and its
\* 'c7n.matched-security-groups' annotation.  The policy gives remove
\* (absent, 'matched', 'all' or a list of ids), add (a list, empty when
\* absent) and the isolation group.
MaxGroups == 2       \* most security groups on one resource
MaxResources == 2    \* longest resource list handed to get_groups
GroupIds == {"sg-1", "sg-2", "sg-3"}
IsolationGroup == "sg-iso"
GroupLists ==
    {l \in SeqsUpTo(GroupIds, MaxGroups) :
        \A i, j \in 1..Len(l) : l[i] = l[j] => i = j}
GroupResources == [groups : GroupLists, matched : {<<>>, <<"sg-1">>}]
RemoveSpecs ==
    {[kind |-> "none", ids |-> <<>>], [kind |-> "matched", ids |-> <<>>],
     [kind |-> "all", ids |-> <<>>], [kind |-> "list", ids |-> <<"sg-1">>]}
AddSpecs == {<<>>, <<"sg-3">>}

\* list.remove(g): the first occurrence of g is taken out.
RemoveFirst(l, g) ==
    LET i == CHOOSE i \in 1..Len(l) :
                 l[i] = g /\ \A j \in 1..(i - 1) : l[j] # g
    IN SubSeq(l, 1, i - 1) \o SubSeq(l, i + 1, Len(l))

\* for g in remove_groups: if g in rgroups: rgroups.remove(g), where
\* remove_groups is a list of its own.
RECURSIVE RemoveEach(_, _, _)
RemoveEach(rgroups, remove_groups, k) ==
    IF k > Len(remove_groups) THEN rgroups
    ELSE RemoveEach(IF remove_groups[k] \in Range(rgroups)
                    THEN RemoveFirst(rgroups, remove_groups[k]) ELSE rgroups,
                    remove_groups, k + 1)

\* The same loop when remove_groups is rgroups itself (remove: all): the
\* list iterator reads position i of the list the loop body shortens.
RECURSIVE RemoveWhileIterating(_, _)
RemoveWhileIterating(rgroups, i) ==
    IF i > Len(rgroups) THEN rgroups
    ELSE RemoveWhileIterating(RemoveFirst(rgroups, rgroups[i]), i + 1)

\* for g in add_groups: if g not in rgroups: rgroups.append(g)
RECURSIVE AddEach(_, _, _)
AddEach(rgroups, add_groups, k) ==
    IF k > Len(add_groups) THEN rgroups
    ELSE AddEach(IF add_groups[k] \in Range(rgroups) THEN rgroups
                 ELSE Append(rgroups, add_groups[k]),
                 add_groups, k + 1)

\* The body of the loop for one resource, from the list rgroups is bound to.
GroupsOfOne(r, rgroups, remove, add) ==
    LET removed == CASE remove.kind = "matched" ->
                           RemoveEach(rgroups, r.matched, 1)
                     [] remove.kind = "all" -> RemoveWhileIterating(rgroups, 1)
                     [] remove.kind = "list" ->
                           RemoveEach(rgroups, remove.ids, 1)
                     [] OTHER -> rgroups
        added == AddEach(removed, add, 1)
    IN IF added = <<>> THEN <<IsolationGroup>> ELSE added

\* The for loop of get_groups from resource k on.  rgroups is assigned
\* only for a resource that has groups: otherwise the name is unbound (first
\* resource) or still bound to the list of the resource before, which is
\* also an element of return_groups (shared: the positions of that list).
RECURSIVE GroupsLoop(_, _, _, _, _, _, _, _)
GroupsLoop(resources, remove, add, k, bound, rgroups, return_groups, shared) ==
    IF k > Len(resources) THEN [err |-> "none", val |-> return_groups]
    ELSE IF resources[k].groups = <<>> /\ ~bound
    THEN [err |-> "UnboundLocalError", val |-> <<>>]
    ELSE
      LET fresh == resources[k].groups # <<>>
          start == IF fresh THEN resources[k].groups ELSE rgroups
          same == IF fresh THEN {} ELSE shared
          result == GroupsOfOne(resources[k], start, remove, add)
          ret == [j \in 1..Len(return_groups) |->
                     IF j \in same THEN result ELSE return_groups[j]]
      IN GroupsLoop(resources, remove, add, k + 1, TRUE, result,
                    Append(ret, result), same \cup {k})

\* ModifyVpcSecurityGroupsAction.get_groups
GetGroups(resources, remove, add) ==
    GroupsLoop(resources, remove, add, 1, FALSE, <<>>, <<>>, {})

ApplyGetGroups ==
    /\ Ready
    /\ \E resources \in SeqsUpTo(GroupResources, MaxResources),
          remove \in RemoveSpecs, add \in AddSpecs :
         Applied([name |-> "get_groups", resources |-> resources,
                  remove |-> remove, add |-> add,
                  out |-> GetGroups(resources, remove, add)])

\* ----------------------------------- DescribeSource.augment: the executor
\* with executor_factory(max_workers=manager.max_workers) as w:
\*     results = list(w.map(_augment, chunks(...)))
\* The executor runs submitted tasks on at most max_workers workers, in
\* submission order; leaving the with block joins it: every submitted task
\* has completed, or was cancelled before it started, when the handle is
\* released.  A task is one chunk's detail calls.
MaxTasks == 4        \* most chunks of one augment call
max_workers == 3
WorkerCounts == {1, max_workers}
TaskOutcomes == {"ok", "failed"}

\* Tasks in a given state.
TasksIn(f, state) == {k \in 1..f.n : f.st[k] = state}

\* w.map has read the result of a failed task: every task before it is
\* finished and it holds an exception.
MapRaises(f) ==
    \E k \in 1..f.n :
        /\ f.st[k] = "failed"
        /\ \A j \in 1..(k - 1) : f.st[j] = "ok"

\* augment enters the with block and w.map submits one task per chunk.
PoolOpen ==
    /\ Ready
    /\ \E n \in 1..MaxTasks, workers \in WorkerCounts :
         Applied([name |-> "pool", n |-> n, max_workers |-> workers,
                  st |-> [k \in 1..n |-> "queued"],
                  cancelled |-> {}, status |-> "running"])

\* Variant: a queued task starts whether or not a worker is free.
TaskStartUnbounded ==
    /\ pc = "fn" /\ fn.name = "pool" /\ fn.status = "running"
    /\ \E k \in TasksIn(fn, "queued") :
         /\ \A j \in TasksIn(fn, "queued") : k <= j
         /\ Applied([fn EXCEPT !.st[k] = "running"])

\* A free worker takes the task submitted first among those queued.
TaskStart ==
    /\ pc = "fn" /\ fn.name = "pool" /\ fn.status = "running"
    /\ Cardinality(TasksIn(fn, "running")) < fn.max_workers
    /\ \E k \in TasksIn(fn, "queued") :
         /\ \A j \in TasksIn(fn, "queued") : k <= j
         /\ Applied([fn EXCEPT !.st[k] = "running"])

\* A running task returns its chunk's records or raises.
TaskFinish(o) ==
    /\ pc = "fn" /\ fn.name = "pool" /\ fn.status = "running"
    /\ \E k \in TasksIn(fn, "running") :
         Applied([fn EXCEPT !.st[k] = o])

\* The exception of a failed task leaves w.map: the tasks still queued are
\* cancelled.
PoolCancel ==
    /\ pc = "fn" /\ fn.name = "pool" /\ fn.status = "running"
    /\ MapRaises(fn)
    /\ TasksIn(fn, "queued") # {}
    /\ Applied([fn EXCEPT
                  !.cancelled = TasksIn(fn, "queued"),
                  !.st = [k \in 1..fn.n |->
                            IF fn.st[k] = "queued" THEN "cancelled"
                            ELSE fn.st[k]]])

\* The with block is left: the executor is shut down and joined, then
\* augment returns the chained results or raises the first exception.
PoolExit ==
    /\ pc = "fn" /\ fn.name = "pool" /\ fn.status = "running"
    /\ TasksIn(fn, "queued") \cup TasksIn(fn, "running") = {}
    /\ Applied([fn EXCEPT
                  !.status = IF MapRaises(fn) THEN "raised" ELSE "returned"])

\* ------------------------------------------------------- commands.run
\* outs[k]: whether calling policy k returns or raises an Exception.
MaxPolicies == 3     \* most policies selected for one run
PolicyOutcomes == {"ok", "Exception"}

\* The loop has not been left.
RunStart == [status |-> "loop", exit_code |-> 0, executed |-> <<>>]

\* Variant: an exception ends the loop with or without --debug.
RunStepStopOnError(st, k, o, debug) ==
    IF st.status # "loop" THEN st
    ELSE IF o = "ok" THEN [st EXCEPT !.executed = Append(@, k)]
    ELSE [st EXCEPT !.executed = Append(@, k), !.exit_code = 2,
                    !.status = "raised"]

\* One turn of the for loop: policy k is called; an Exception sets
\* exit_code to 2 and is raised again under --debug, logged otherwise.
RunStep(st, k, o, debug) ==
    IF st.status # "loop" THEN st
    ELSE IF o = "ok" THEN [st EXCEPT !.executed = Append(@, k)]
    ELSE [st EXCEPT !.executed = Append(@, k), !.exit_code = 2,
                    !.status = IF debug THEN "raised" ELSE "loop"]

RECURSIVE RunLoop(_, _, _, _)
RunLoop(st, outs, k, debug) ==
    IF k > Len(outs) THEN st
    ELSE RunLoop(RunStep(st, k, outs[k], debug), outs, k + 1, debug)

\* run(options, policies): after the loop, sys.exit(exit_code).
Run(outs, debug) ==
    LET st == RunLoop(RunStart, outs, 1, debug)
    IN IF st.status = "loop" THEN [st EXCEPT !.status = "exit"] ELSE st

ApplyRun ==
    /\ Ready
    /\ \E outs \in SeqsUpTo(PolicyOutcomes, MaxPolicies), debug \in BOOLEAN :
         Applied([name |-> "run", outs |-> outs, debug |-> debug,
                  out |-> Run(outs, debug)])

\* -------------------------------------------------- commands.validate
\* A config file: whether schema.validate finds no error in it, the names
\* of its policies, and whether every Policy(p, ...) of it constructs.
MaxConfigs == 3      \* most config files given to one validate
PolicyNames == {"p1", "p2"}
ConfigFiles ==
    [schema_ok : BOOLEAN, names : {{n} : n \in PolicyNames},
     constructs : BOOLEAN]

\* The errors list at the end of the loop body for file f, given the
\* policy names used by the files before it.
FileErrors(f, used_policy_names) ==
    LET errors == (IF f.schema_ok THEN {} ELSE {"schema"}) \cup
                  (IF f.names \cap used_policy_names # {} THEN {"dupes"}
                   ELSE {})
    IN IF errors = {} /\ ~f.constructs THEN {"policy"} ELSE errors

\* The for loop from file k on: errors is assigned anew for every file.
RECURSIVE ValidateLoop(_, _, _, _, _)
ValidateLoop(configs, k, used_policy_names, errors, invalid) ==
    IF k > Len(configs) THEN [errors |-> errors, invalid |-> invalid]
    ELSE LET e == FileErrors(configs[k], used_policy_names)
         IN ValidateLoop(configs, k + 1,
                         used_policy_names \cup configs[k].names, e,
                         IF e = {} THEN invalid ELSE invalid \cup {k})

\* validate(options): exit 1 without config files; else the loop, then
\* sys.exit(1) when errors is not empty.  invalid: the files logged as
\* 'Configuration invalid'.
Validate(configs) ==
    IF Len(configs) < 1 THEN [status |-> "exit", code |-> 1, invalid |-> {}]
    ELSE LET l == ValidateLoop(configs, 1, {}, {}, {})
         IN IF l.errors # {}
            THEN [status |-> "exit", code |-> 1, invalid |-> l.invalid]
            ELSE [status |-> "returned", code |-> 0, invalid |-> l.invalid]

ApplyValidate ==
    /\ Ready
    /\ \E configs \in SeqsUpTo(ConfigFiles, MaxConfigs) :
         Applied([name |-> "validate", configs |-> configs,
                  out |-> Validate(configs)])

NextFn ==
    \/ ApplyGetGroups
    \/ ApplyRun
    \/ ApplyValidate
    \/ PoolOpen
    \/ TaskStart
    \/ \E o \in TaskOutcomes : TaskFinish(o)
    \/ PoolCancel
    \/ PoolExit
    \/ ApplyAugment
    \/ ApplyFilter
    \/ ApplyGet
    \/ RetryCall
    \/ \E o \in AttemptOutcomes : RetryAttempt(o)
    \/ ApplyGetPermissions
    \/ ApplyResourcesCached
    \/ ApplyRegister
    \/ LoadS3Metrics
    \/ ApplyMatchIds
    \/ ApplyProcessPorts
    \/ Forget

SpecFn == InitFn /\ [][NextFn]_vars

\* ===================================================================
\* Properties
\* ===================================================================
Done(op) == pc = "done" /\ last.op = op

\* C1: with a usable cache, the resources(Q) call that follows a
\* resources(Q) call which missed and returned hits the cache: the two calls
\* issue one enumeration request in total, the second issues no provider
\* request at all and returns the saved records run through the filter chain.
C1Case ==
    Done("resources") /\ cacheUsable /\ prev.miss /\ prev.q = last.q
C1_WarmCacheOneEnumeration ==
    C1Case =>
        /\ last.hit
        /\ ~Failed(last.res)
        /\ prev.enumCalls + last.res.enumCalls = 1
        /\ last.res.detailCalls = 0
        /\ last.res.guarded \cup last.res.direct = {}
        /\ last.res.val = FilterResources(cache[last.q], last.chain)
C1_Witness ==
    C1Case /\ last.hit /\ desc.detail = "scalar" /\ Len(last.res.val) = 2

\* C2 (as stated): a get_resources(ids) call that misses the cache, in which
\* the provider raises not-found while ids names a gone id and existing ids,
\* returns without error exactly the records of the existing ids.
C2Case ==
    /\ Done("get_resources") /\ ~last.hit
    /\ last.inner = "NotFound"
    /\ "gone" \in Range(last.ids)
    /\ Range(last.ids) \cap Range(Existing) # {}
C2_ResolvableReturned ==
    C2Case =>
        /\ ~Failed(last.res)
        /\ IdsOf(last.res.val) = Range(last.ids) \cap Range(Existing)

\* C2 (amended): in that case the call returns without error the empty list,
\* with a warning: no record is returned, not even for the existing ids.
C2_NotFoundGivesEmpty ==
    C2Case => ~Failed(last.res) /\ last.res.val = <<>> /\ last.warned
C2_Witness ==
    C2Case /\ last.ids = <<"a", "gone">> /\ desc.filter_type = "list"

\* C3: when source.get_resources(ids) or the augment step after it raises a
\* ClientError inside get_resources, the call does not raise: it warns and
\* returns the empty list.
C3Case == Done("get_resources") /\ last.inner \in ClientErrorCodes
C3_ClientErrorGivesEmpty ==
    C3Case => ~Failed(last.res) /\ last.res.val = <<>> /\ last.warned
C3_Witness ==
    C3Case /\ last.inner = "AccessDenied" /\ last.augmented /\ Len(last.augIn) = 2

\* C4 (as stated): get_resources([]) returns [] and issues no detail call,
\* for every descriptor and cache state.
C4Case == Done("get_resources") /\ last.ids = <<>>
C5Case ==
    /\ pc = "done" /\ last.op \in {"resources", "get_resources", "augment"}
    /\ "InternalError" \in last.res.provErrs
C5_UnknownErrorRaised == C5Case => Failed(last.res)

\* C5 (amended): such an error makes resources(query) raise, with nothing
\* saved; in get_resources(ids), raised out of lookup or augment, it is
\* caught like every ClientError and [] is returned; in S3.augment the
\* bucket it was met for is left out and the call returns.
C5_UnknownError ==
    /\ (C5Case /\ last.op = "resources") => Failed(last.res) /\ ~last.saved
    /\ (C5Case /\ last.op = "get_resources" /\ last.inner = "InternalError") =>
          ~Failed(last.res) /\ last.res.val = <<>> /\ last.warned
    /\ (C5Case /\ last.op = "augment") =>
          /\ ~Failed(last.res)
          /\ last.res.dropped # {}
          /\ IdsOf(last.res.val) \cap last.res.dropped = {}
C5_Witness ==
    /\ C5Case /\ last.op = "resources" /\ desc.detail = "scalar"
    /\ last.res.detailCalls = 2 /\ last.res.err = "InternalError"

\* C6 (as stated): when a detail fetch submitted by ConfigSource.resources
\* raises, resources() still returns normally.
C6_FetchFailureIsolated ==
    (/\ Done("resources") /\ desc.source = "config"
     /\ last.res.detailCalls > 0 /\ last.res.provErrs # {}) =>
        ~Failed(last.res)

\* C7 (as stated): when a detail call of the augmentation is answered with
\* access-denied, the resource is left out with a warning and the call
\* returns the other resources.
C7Case ==
    /\ pc = "done" /\ last.op \in {"resources", "augment"} /\ ~last.hit
    /\ last.res.detailCalls > 0
    /\ last.res.provErrs = {"AccessDenied"}
C7_DeniedLeftOut ==
    C7Case =>
        /\ ~Failed(last.res)
        /\ last.warned
        /\ last.res.dropped # {}
        /\ IdsOf(last.res.val) \cap last.res.dropped = {}

\* C7 (amended): that holds of the SQS and S3 augment overrides; the generic
\* DescribeSource scalar and batch augment raise the error out of augment,
\* so that resources() raises and saves nothing.
C7_DeniedByKind ==
    /\ (C7Case /\ desc.kind = "sqs") =>
          /\ ~Failed(last.res) /\ last.warned /\ last.res.dropped # {}
          /\ IdsOf(last.res.val) = (IdsOf(last.augIn) \ last.res.dropped) \cap last.chain
    /\ (C7Case /\ desc.kind = "s3") =>
          /\ ~Failed(last.res) /\ last.warned /\ last.res.dropped # {}
          /\ IdsOf(last.res.val) = Range(Inventory(last.q)) \ last.res.dropped
    /\ (C7Case /\ desc.kind = "generic" /\ desc.source = "describe") =>
          last.res.err = "AccessDenied" /\ ~last.saved
C7_Witness ==
    /\ C7Case /\ desc.kind = "sqs" /\ last.chain = AllIds
    /\ Len(last.res.val) = 1 /\ Cardinality(last.res.dropped) = 1

\* C8 (as stated): in assemble_bucket a detail call answered with
\* PermanentRedirect is queued again at most once, whatever the provider
\* answers to the re-issued call.
C8_RequeuedAtMostOnce ==
    (pc = "s3" /\ asm.active) =>
        \A j \in 1..Len(Methods) : Queued(asm.methods, Methods[j].m) <= 2

C9Case ==
    pc = "done" /\ desc.detail = "both" /\ last.augmented /\ last.inner = "none"
C10Case ==
    /\ pc = "done" /\ last.augmented
    /\ desc.kind = "generic" /\ desc.source = "describe" /\ desc.detail = "none"
C10_NoSpecAugmentIsIdentity ==
    C10Case =>
        /\ last.augOut = last.augIn
        /\ last.inner = "none"
        /\ last.res.detailCalls = 0
        /\ "detail" \notin last.res.guarded \cup last.res.direct
        /\ last.tasks = 0
C10_Witness == C10Case /\ Len(last.augIn) = 2

\* C11: batch augmentation of N resources with chunk size C, against a
\* provider that answers every call with one entry per requested id, issues
\* ceil(N / C) detail calls (none for N = 0), each with at most C ids, and
\* returns N records.
C11Case ==
    /\ fn.name = "augment"
    /\ \A k \in DOMAIN fn.bs : fn.bs[k].fail = 0

C11_BatchCallsCeiling ==
    C11Case =>
        /\ ~Failed(fn.out)
        /\ fn.out.detailCalls * fn.size >= fn.n
        /\ (fn.out.detailCalls - 1) * fn.size < fn.n
        /\ fn.n = 0 => fn.out.detailCalls = 0
        /\ Len(fn.requests) = fn.out.detailCalls
        /\ \A k \in DOMAIN fn.requests : Len(fn.requests[k]) \in 1..fn.size
        /\ Len(fn.out.val) = fn.n

C11_Witness ==
    /\ C11Case
    /\ fn.n > fn.size
    /\ fn.n % fn.size # 0
    /\ fn.out.detailCalls > 1

\* C12: in ResourceQuery.filter the request parameters are the descriptor's
\* extra parameters merged with the caller's; as stated, the caller's value
\* is sent for a key present in both.
C12Case == fn.name = "filter"

C12_CallerValueSent ==
    C12Case =>
        /\ DOMAIN fn.sent = DOMAIN fn.extra_args \cup DOMAIN fn.params
        /\ \A k \in DOMAIN fn.params : fn.sent[k] = fn.params[k]

\* C12, as the code has it: the descriptor's value is sent for a key present
\* in both, the caller's value for a key the descriptor does not set.
C12_DescriptorValueSent ==
    C12Case =>
        /\ DOMAIN fn.sent = DOMAIN fn.extra_args \cup DOMAIN fn.params
        /\ \A k \in DOMAIN fn.extra_args : fn.sent[k] = fn.extra_args[k]
        /\ \A k \in DOMAIN fn.params \ DOMAIN fn.extra_args :
              fn.sent[k] = fn.params[k]

C12_Witness ==
    /\ C12Case
    /\ \E k \in DOMAIN fn.params \cap DOMAIN fn.extra_args :
          /\ fn.params[k] # fn.extra_args[k]
          /\ fn.sent[k] = fn.extra_args[k]
    /\ \E k \in DOMAIN fn.params \ DOMAIN fn.extra_args : TRUE

\* C13: for a kind with a scalar server-side filter, ResourceQuery.get with
\* an id list whose length is not one fails (AssertionError) before any
\* provider call, and with one id sends that id as the filter parameter; for
\* the list form the id list is sent as given.
C13Case == fn.name = "get" /\ fn.d.filter_type \in {"scalar", "list"}

C13_ScalarTakesOneId ==
    C13Case =>
        /\ (fn.d.filter_type = "scalar" /\ Len(fn.ids) # 1) =>
              /\ fn.out.err = "AssertionError"
              /\ fn.out.enumCalls = 0
              /\ fn.request = Unsent
        /\ (fn.d.filter_type = "scalar" /\ Len(fn.ids) = 1) =>
              /\ fn.out.enumCalls = 1
              /\ fn.request = [kind |-> "scalar", ids |-> <<fn.ids[1]>>]
        /\ fn.d.filter_type = "list" =>
              /\ fn.out.enumCalls = 1
              /\ fn.request = [kind |-> "list", ids |-> fn.ids]

C13_Witness ==
    /\ C13Case
    /\ fn.d.filter_type = "scalar"
    /\ Len(fn.ids) = 2
    /\ fn.out.err = "AssertionError"

\* C14: a call wrapped by a retry policy of at most M attempts is invoked
\* exactly M times and then raises when every attempt is throttled, is
\* invoked exactly k times and returns when attempt k <= M is the first to
\* succeed, and raises an error whose code is not configured at the
\* invocation that met it (after one invocation when it is the first).
C14Case == fn.name = "retry"

Throttled(calls, n) == \A j \in 1..n : calls[j] \in RetryCodes

C14_RetryBound ==
    C14Case =>
        LET n == Len(fn.calls)
        IN /\ n <= fn.max
           /\ Throttled(fn.calls, n - 1)
           /\ fn.status = "running" => (n < fn.max /\ Throttled(fn.calls, n))
           /\ fn.status = "returned" => (n >= 1 /\ fn.calls[n] = "ok")
           /\ fn.status = "raised" =>
                 /\ n >= 1 /\ fn.calls[n] # "ok" /\ fn.err = fn.calls[n]
                 /\ Throttled(fn.calls, n) => n = fn.max
                 /\ ~Throttled(fn.calls, n) => fn.calls[n] \notin RetryCodes

C14_Witness ==
    /\ C14Case
    /\ fn.max = 3
    /\ fn.status = "raised"
    /\ fn.calls = <<"Throttled", "Throttled", "Throttled">>

\* C15: get_permissions of a manager on the describe source returns a
\* non-empty list that holds '<service>:<EnumOp>', '<service>:<DetailOp>'
\* for every detail spec declared (scalar or batch), and every declared
\* extra permission.
C15Case == fn.name = "permissions" /\ fn.d.source = "describe"

C15_PermissionsCoverSpecs ==
    C15Case =>
        LET perms == Range(fn.out)
        IN /\ fn.out # <<>>
           /\ Permission(fn.d.service, Napi(EnumOp)) \in perms
           /\ fn.d.detail \in {"scalar", "both"} =>
                 Permission(fn.d.service, Napi(DetailOp)) \in perms
           /\ fn.d.detail \in {"batch", "both"} =>
                 Permission(fn.d.service, Napi(BatchOp)) \in perms
           /\ Range(fn.permissions) \subseteq perms

\* C16: after Cache.save(key, L) no step changes a record of the saved
\* entry: what a later Cache.get(key) hands out equals L as it was when
\* saved, also after resources() has run its result through the filter
\* chain, as long as no Cache.save has replaced the entry.
C16_SavedEntryUnchanged ==
    fn.name = "cached" => fn.later = fn.atSave

\* C17: registering a name that is already bound fails with
\* DuplicateRegistration and leaves the binding as it was; as stated, this
\* includes the second register('metrics', ...) on a filter registry in
\* which QueryMeta has registered 'metrics'.
C17Case == fn.name = "register" /\ fn.key \in DOMAIN fn.reg

C18_NoAttributeErrorAtRunTime ==
    (Done("get_resources") /\ desc.source = "describe") =>
        last.res.err # "AttributeError"

\* C19: match_ids(ids) returns, in input order, exactly the ids that start
\* with the id_prefix of the kind, and returns ids unchanged for a kind that
\* declares no id_prefix.
C19Case == fn.name = "match_ids"

\* The positions of ids whose id starts with the prefix, and how many of
\* them lie at or before position k.
C19Hits == {k \in 1..Len(fn.ids) : StartsWith(fn.ids[k], fn.id_prefix.value)}
C19Rank(k) == Cardinality({j \in C19Hits : j <= k})

C19_MatchIdsKeepsPrefixed ==
    C19Case =>
        /\ ~fn.id_prefix.set => fn.out = fn.ids
        /\ fn.id_prefix.set =>
              /\ Len(fn.out) = Cardinality(C19Hits)
              /\ \A k \in C19Hits : fn.out[C19Rank(k)] = fn.ids[k]

C19_Witness ==
    /\ C19Case
    /\ fn.id_prefix = [set |-> TRUE, value |-> <<"s", "g", "-">>]
    /\ fn.ids = <<<<"v", "p", "c", "-", "1">>, <<"s", "g", "-", "2">>,
                  <<"s", "g", "-", "1">>>>
    /\ fn.out = <<<<"s", "g", "-", "2">>, <<"s", "g", "-", "1">>>>

\* C20: with Ports: P (and no OnlyPorts) on an ingress / egress filter, a
\* permission that has FromPort and ToPort matches on ports only when its
\* range includes all of the ports in P.
C20Case ==
    /\ fn.name = "process_ports"
    /\ fn.ports # <<>>
    /\ fn.only_ports = <<>>
    /\ fn.perm.has

C20_MatchNeedsAllPorts ==
    (C20Case /\ fn.found = "True") =>
        \A k \in 1..Len(fn.ports) :
            fn.ports[k] >= fn.perm.from /\ fn.ports[k] <= fn.perm.to

\* C21: get_groups returns one list per resource, in input order, each
\* computed from that resource alone: its groups without the removal set
\* ('all' = every group it has, 'matched' = its annotation, or the listed
\* ids), then the add groups it lacks; the isolation group alone when that
\* leaves nothing.
C21Removal(r) ==
    CASE fn.remove.kind = "all" -> Range(r.groups)
      [] fn.remove.kind = "matched" -> Range(r.matched)
      [] fn.remove.kind = "list" -> Range(fn.remove.ids)
      [] OTHER -> {}

C21Expected(r) ==
    LET keep(g) == g \notin C21Removal(r)
        kept == SelectSeq(r.groups, keep)
        lacks(g) == g \notin Range(kept)
        all == kept \o SelectSeq(fn.add, lacks)
    IN IF all = <<>> THEN <<IsolationGroup>> ELSE all

C21_GroupsPerResource ==
    fn.name = "get_groups" =>
        /\ fn.out.err = "none"
        /\ Len(fn.out.val) = Len(fn.resources)
        /\ \A k \in 1..Len(fn.resources) :
              fn.out.val[k] = C21Expected(fn.resources[k])

\* C22: a resources() call that misses the cache and returns has enumerated
\* once, augmented what it enumerated, saved the whole augmented list and
\* only then run the filter chain on it; a call that hits returns the saved
\* list run through its own filter chain, with no provider request.
C22Case == Done("resources") /\ ~last.hit /\ ~Failed(last.res)
C22_SaveBeforeFilter ==
    /\ C22Case =>
          /\ last.res.enumCalls = 1
          /\ last.augmented
          /\ last.saved
          /\ last.q \in CacheKeys
          /\ cache[last.q] = last.augOut
          /\ last.res.val = FilterResources(last.augOut, last.chain)
    /\ (Done("resources") /\ last.hit) =>
          /\ ~last.saved /\ ~last.augmented
          /\ last.res.enumCalls = 0
          /\ last.res.val = FilterResources(cache[last.q], last.chain)
C22_Witness ==
    /\ C22Case /\ last.chain = {"a"}
    /\ Len(last.augOut) = 2 /\ Len(last.res.val) = 1
    /\ cache[last.q] = last.augOut

\* C23: once resources() without a query has saved its result in a usable
\* cache, get_resources(ids) with cache enabled issues no provider request
\* and returns the saved records whose id is in ids, in saved order, not
\* run through the filter chain; with cache=False it takes the source
\* lookup instead, which for a non-empty ids that passes the checks made
\* before the request issues at least one provider request.
C23Case == Done("get_resources") /\ cacheUsable /\ "None" \in CacheKeys
C23Wanted(r) == r["Id"] \in Range(last.ids)
C23_WarmLookup ==
    /\ (C23Case /\ last.useCache) =>
          /\ last.hit
          /\ ~Failed(last.res)
          /\ last.res.enumCalls = 0 /\ last.res.detailCalls = 0
          /\ last.res.guarded \cup last.res.direct = {}
          /\ last.res.val = SelectSeq(cache["None"], C23Wanted)
    /\ (C23Case /\ ~last.useCache) =>
          /\ ~last.hit
          /\ (/\ last.ids # <<>>
              /\ last.inner \notin {"AssertionError", "AttributeError"}) =>
                last.res.enumCalls + last.res.detailCalls >= 1
C23_Witness ==
    /\ C23Case /\ last.useCache /\ last.ids = <<"b", "gone">>
    /\ Len(cache["None"]) = 2 /\ IdsOf(last.res.val) = {"b"}

\* C24 (as stated): scalar augmentation issues one detail call per input
\* and yields one record per input; without a response path the record is
\* the detail response, transport metadata stripped, with the id set from
\* the input; with a response path the detail at that path is merged into
\* the input record.
C24Case ==
    /\ pc = "done" /\ last.op \in {"resources", "get_resources"}
    /\ last.augmented /\ last.inner = "none"
    /\ desc.kind = "generic" /\ desc.source = "describe"
    /\ Strategy(desc) = "scalar"
C24Detail(r) ==
    IF desc.detail_path THEN DetailResponse(desc, IdOf(r))["Path"]
    ELSE Pop(DetailResponse(desc, IdOf(r)), "ResponseMetadata")
C24Counts ==
    /\ last.res.detailCalls = Len(last.augIn)
    /\ Len(last.augOut) = Len(last.augIn)
C24_ReplaceWithoutPath ==
    C24Case =>
        /\ C24Counts
        /\ \A k \in 1..Len(last.augIn) :
              last.augOut[k] =
                 IF ~desc.detail_path
                 THEN Update(C24Detail(last.augIn[k]),
                             "Id" :> IdOf(last.augIn[k]))
                 ELSE Update(last.augIn[k], C24Detail(last.augIn[k]))

\* C24 (amended): one detail call and one record per input; the detail is
\* the response at the response path when one is declared, else the
\* response with transport metadata stripped.  When the detail spec has no
\* param_key (the input is a bare id) the record is the detail with the id
\* field set to the input; when it has one the detail is merged into the
\* input record, whose fields not overwritten survive.
C24_ReplaceWithoutParamKey ==
    C24Case =>
        /\ C24Counts
        /\ \A k \in 1..Len(last.augIn) :
              /\ last.augOut[k] =
                    IF ~desc.param_key
                    THEN Update(C24Detail(last.augIn[k]),
                                "Id" :> IdOf(last.augIn[k]))
                    ELSE Update(last.augIn[k], C24Detail(last.augIn[k]))
              /\ desc.param_key =>
                    \A f \in DOMAIN last.augIn[k] \ DOMAIN DetailPayload :
                        /\ f \in DOMAIN last.augOut[k]
                        /\ last.augOut[k][f] = last.augIn[k][f]
C24_Witness ==
    /\ C24Case /\ desc.param_key /\ ~desc.detail_path
    /\ Len(last.augOut) = 2
    /\ DOMAIN last.augOut[1] = {"Id", "A", "D"}

\* C25: at every moment of a DescribeSource.augment call at most
\* max_workers chunk tasks are executing, and once the call has returned or
\* raised none of the tasks of its pool is executing or waiting to.
C25Case == fn.name = "pool"
C25_BoundedWorkers ==
    C25Case =>
        /\ Cardinality(TasksIn(fn, "running")) <= fn.max_workers
        /\ fn.max_workers <= max_workers
        /\ fn.status \in {"returned", "raised"} =>
              TasksIn(fn, "running") \cup TasksIn(fn, "queued") = {}
        /\ fn.status = "returned" => \A k \in 1..fn.n : fn.st[k] = "ok"
C25_Witness ==
    /\ C25Case /\ fn.n = MaxTasks /\ fn.max_workers = max_workers
    /\ Cardinality(TasksIn(fn, "running")) = max_workers
    /\ TasksIn(fn, "queued") # {}

\* C26: every record returned by get_resources(ids) (ResourceQuery.get
\* behind it) has its id in ids, whatever the descriptor: list or scalar
\* server-side filter, no filter name, or a filter name of another kind.
C26Case == Done("get_resources") /\ ~Failed(last.res)
C26_ReturnedAreRequested ==
    C26Case => IdsOf(last.res.val) \subseteq Range(last.ids)

\* C27: over any sequence of calls a step changes the cache only when it
\* is a resources() call that missed and whose enumeration and augmentation
\* completed without error; a get_resources call and a resources() call
\* whose enumeration or augmentation raises leave every entry as it was.
C27Saving ==
    /\ last'.op = "resources" /\ ~last'.hit
    /\ last'.augmented /\ last'.inner = "none" /\ ~Failed(last'.res)
    /\ cache' = CacheSave(cache, last'.q, last'.augOut)
C28Case == pc = "done" /\ last.op \in {"resources", "get_resources"}
C28_AllThroughRetry ==
    C28Case =>
        IF desc.retry THEN last.res.direct = {} ELSE last.res.guarded = {}

\* C29: run without --debug calls every selected policy, in order, also
\* after one raised, then exits with code 2 when at least one raised and 0
\* otherwise; with --debug the first exception is raised out of run and no
\* later policy is called.
C29Case == fn.name = "run"
C29Raising == {k \in 1..Len(fn.outs) : fn.outs[k] = "Exception"}
C29_RunContinuesUnlessDebug ==
    C29Case =>
        IF fn.debug /\ C29Raising # {}
        THEN /\ fn.out.status = "raised"
             /\ \E first \in C29Raising :
                  /\ \A k \in C29Raising : first <= k
                  /\ fn.out.executed = [k \in 1..first |-> k]
        ELSE /\ fn.out.status = "exit"
             /\ fn.out.executed = [k \in 1..Len(fn.outs) |-> k]
             /\ fn.out.exit_code = IF C29Raising # {} THEN 2 ELSE 0
C29_Witness ==
    /\ C29Case /\ ~fn.debug
    /\ fn.outs = <<"Exception", "ok", "ok">>
    /\ fn.out.exit_code = 2 /\ Len(fn.out.executed) = 3

\* C30: validate given config files exits non-zero when any one of them is
\* invalid (schema error, a policy that does not construct, or a policy
\* name used by an earlier file), wherever that file stands, and returns
\* normally only when all are valid.
C30Case == fn.name = "validate" /\ Len(fn.configs) >= 1
C30Invalid(k) ==
    \/ ~fn.configs[k].schema_ok
    \/ ~fn.configs[k].constructs
    \/ \E j \in 1..(k - 1) : fn.configs[j].names \cap fn.configs[k].names # {}
C30_AnyInvalidFileFails ==
    C30Case =>
        (fn.out.status = "returned" <=>
            \A k \in 1..Len(fn.configs) : ~C30Invalid(k))

====
